---- MODULE Spec2Model ----
(***************************************************************************)
(* Holding ledger of Cryptex: Transaction.create / Transaction.delete      *)
(* (src/models/transaction.py) and PortfolioHolding.get_or_create /        *)
(* update_holding (src/models/portfolio_holding.py) over the two tables    *)
(* Transaction and PortfolioHolding.                                       *)
(*                                                                         *)
(* Numbers: the code computes in Python floats.  The model computes in     *)
(* exact rationals [n, d] (normalised, d > 0), so an equality of the model *)
(* is an equality "within floating-point tolerance" of the code.           *)
(* Every execute_query of a handler may raise; the input `fail` of an      *)
(* action names the one query of that call that raises ("none": no query). *)
(* Spec is the ledger over a database that answers every query, SpecFaulty *)
(* the ledger over one whose queries may raise, SpecRaw the model methods  *)
(* called directly with arguments nobody validated.  SpecValuation adds    *)
(* the Price table and the valuations of PortfolioHolding, Portfolio       *)
(* (src/models/portfolio.py) and the overview; SpecScenario runs the calls *)
(* of test_portfolio_holding_model; SpecConcurrent runs two callers query  *)
(* by query, as execute_query (src/database/connection.py) lets them.      *)
(* SpecEdit adds Transaction.update and get_total_cost to the ledger.      *)
(* SpecFetcher is the PriceFetcher (src/api/price_fetcher.py) with its     *)
(* loop threads, SpecFetcherLive the same under fair scheduling, and       *)
(* SpecPool the Database context manager over pooled connections that the  *)
(* server may drop.                                                        *)
(***************************************************************************)
EXTENDS Integers, Sequences, FiniteSets, TLC

\* ---- bounds ----
MaxTx == 2          \* Transaction rows ever inserted
MaxQty == 2         \* quantities are 1..MaxQty
MaxPrice == 2       \* prices are 1..MaxPrice
MaxDirect == 1      \* direct get_or_create / update_holding calls
MaxFaults == 1      \* calls in which a query raises
MaxFaultyTx == 1    \* Transaction rows inserted while queries may raise
MaxRawTx == 1       \* Transaction rows inserted from unvalidated arguments
MaxValTx == 2       \* Transaction rows inserted before a valuation
MaxScenarioCalls == 4 \* get_or_create / update_holding calls of the test
MaxConcurrentTx == 1 \* Transaction rows inserted before the last call begins
MaxEditTx == 2      \* Transaction rows inserted before an edit
MaxEdits == 1       \* Transaction.update calls
MaxStarts == 2      \* loop threads ever spawned by PriceFetcher.start
MaxQueries == 2     \* execute_query calls on the connection pool

Portfolios == {1}
Cryptos == {1, 2}
Quantities == 1..MaxQty
Prices == 1..MaxPrice
RawQuantities == {-1, 0, 1}
RawPrices == {0, 1}
ValuedQuantities == {0, 1}
ConcurrentQuantities == {1, 2}
ConcurrentPrices == {1, 2}
EditQuantities == {2}
EditPrices == {3}
Fees == {2}
Threads == 1..MaxStarts
Types == {"buy", "sell"}
RawTypes == {"buy", "sell", "swap"}

\* ---- float arithmetic, as exact rationals ----
Abs(x) == IF x < 0 THEN -x ELSE x

RECURSIVE GCD(_, _)
GCD(a, b) == IF b = 0 THEN a ELSE GCD(b, a % b)

Rat(n, d) ==
    LET g == GCD(Abs(n), Abs(d))
        s == IF d < 0 THEN -1 ELSE 1
    IN [n |-> (s * n) \div g, d |-> (s * d) \div g]

Num(i) == [n |-> i, d |-> 1]
Zero == Num(0)
One == Num(1)
RAdd(a, b) == Rat(a.n * b.d + b.n * a.d, a.d * b.d)
RSub(a, b) == Rat(a.n * b.d - b.n * a.d, a.d * b.d)
RMul(a, b) == Rat(a.n * b.n, a.d * b.d)
RDiv(a, b) == Rat(a.n * b.d, a.d * b.n)
RLt(a, b) == a.n * b.d < b.n * a.d
RPos(a) == a.n > 0
RNeg(a) == a.n < 0

\* ---- state ----
VARIABLES
    holdings,        \* table PortfolioHolding: set of rows
    transactions,    \* table Transaction: set of rows
    next_tx_id,      \* AUTO_INCREMENT of Transaction
    next_holding_id, \* AUTO_INCREMENT of PortfolioHolding
    direct_calls,    \* number of calls made directly on a model object
    faults,          \* number of calls in which a query raised
    prices,          \* table Price: for each crypto its row of latest datetime
    last,            \* the last call: its arguments, what it saw, its result
    procs,           \* for each concurrent caller: where it is in its call
    base,            \* PortfolioHolding when the running round of calls began
    fetcher,         \* the PriceFetcher, its loop threads and its caller
    db               \* the connection pool and every user of a Database()

vars == <<holdings, transactions, next_tx_id, next_holding_id, direct_calls,
         faults, prices, last, procs, base, fetcher, db>>

\* ---- rows and calls ----

\* INSERT INTO PortfolioHolding (...) VALUES (%s, %s, 0, 0, 0)
NewHolding(holding_id, portfolio_id, crypto_id) ==
    [holding_id |-> holding_id, portfolio_id |-> portfolio_id,
     crypto_id |-> crypto_id, quantity |-> Zero,
     average_buy_price |-> Zero, total_invested |-> Zero]

\* "no row": what fetch_one gives when nothing matches (Python None)
None == NewHolding(0, 0, 0)

\* The record of a call: its arguments, the holding row its SELECT returned
\* (before), its return value (result) and what it did on the way:
\*   rejected: Transaction.create returned at the balance check
\*   inserted: the INSERT INTO Transaction was committed
\*   updated:  update_holding was called and returned True
\*   removed:  the DELETE FROM Transaction was committed
\*   undone:   for a delete that directly follows the successful create of
\*             the same transaction, the holding row before that create
\* and for a valuation the tables it read (rows, quotes) and what it returned
\* (current_value, total_value, total_invested, amount, percentage, listed);
\* for Transaction.update the keywords it was given.
NoCall ==
    [op |-> "init", portfolio_id |-> 0, crypto_id |-> 0, type |-> "",
     quantity |-> 0, price_per_unit |-> 0, fail |-> "none", before |-> None,
     result |-> "", rejected |-> FALSE, inserted |-> FALSE, updated |-> FALSE,
     removed |-> FALSE, transaction_id |-> 0, undoes |-> FALSE, undone |-> None,
     rows |-> {}, quotes |-> {}, current_value |-> Zero, total_value |-> Zero,
     total_invested |-> Zero, amount |-> Zero, percentage |-> Zero,
     listed |-> {}, given |-> {}]

Procs == {1, 2}

\* a caller outside any call
Idle ==
    [pc |-> "idle", op |-> "", portfolio_id |-> 0, crypto_id |-> 0, type |-> "",
     quantity |-> 0, price_per_unit |-> 0, found |-> None, holding |-> None,
     added |-> FALSE, result |-> ""]

\* PriceFetcher.__init__: is_running = False, thread = None; no thread of
\* _fetch_and_update exists yet and nobody is inside start() or stop()
NewFetcher ==
    [is_running |-> FALSE, thread |-> 0, spawned |-> 0,
     loops |-> [i \in Threads |-> "unborn"], caller |-> "idle"]

\* a process that is in no `with Database()`, before Database.__init__
NoUse ==
    [pc |-> "idle", connection |-> "none", cursor |-> "none", exc |-> FALSE,
     ended |-> "none", raised |-> FALSE]

\* the uses of the pool; `out` counts the connections that are checked out
NewPool == [out |-> 0, queries |-> 0, users |-> [p \in Procs |-> NoUse]]

Init ==
    /\ holdings = {}
    /\ transactions = {}
    /\ next_tx_id = 1
    /\ next_holding_id = 1
    /\ direct_calls = 0
    /\ faults = 0
    /\ prices = {}
    /\ last = NoCall
    /\ procs = [p \in Procs |-> Idle]
    /\ base = {}
    /\ fetcher = NewFetcher
    /\ db = NewPool

\* ---- PortfolioHolding ----

\* SELECT * FROM PortfolioHolding WHERE portfolio_id = %s AND crypto_id = %s
Matching(portfolio_id, crypto_id) ==
    {h \in holdings : h.portfolio_id = portfolio_id /\ h.crypto_id = crypto_id}

\* a buy that averages the two prices per unit count instead of by capital
BuyResultUnitAverage(h, quantity_change, price_per_unit) ==
    [h EXCEPT !.quantity = RAdd(h.quantity, quantity_change),
              !.average_buy_price =
                  IF RPos(h.quantity)
                  THEN RDiv(RAdd(h.average_buy_price, price_per_unit), Num(2))
                  ELSE price_per_unit,
              !.total_invested =
                  RAdd(h.total_invested, RMul(quantity_change, price_per_unit))]

\* a buy that takes the price just paid as the new average
BuyResultLastPrice(h, quantity_change, price_per_unit) ==
    [h EXCEPT !.quantity = RAdd(h.quantity, quantity_change),
              !.average_buy_price = price_per_unit,
              !.total_invested =
                  RAdd(h.total_invested, RMul(quantity_change, price_per_unit))]

\* a buy that keeps the average the position was opened at
BuyResultFirstPrice(h, quantity_change, price_per_unit) ==
    [h EXCEPT !.quantity = RAdd(h.quantity, quantity_change),
              !.average_buy_price =
                  IF RPos(h.quantity) THEN h.average_buy_price ELSE price_per_unit,
              !.total_invested =
                  RAdd(h.total_invested, RMul(quantity_change, price_per_unit))]

\* the buy branch of update_holding: the row it writes
BuyResult(h, quantity_change, price_per_unit) ==
    LET new_quantity == RAdd(h.quantity, quantity_change)
        new_invested == RAdd(h.total_invested, RMul(quantity_change, price_per_unit))
        new_avg_price == IF RPos(new_quantity) THEN RDiv(new_invested, new_quantity)
                         ELSE Zero
    IN [h EXCEPT !.quantity = new_quantity,
                 !.average_buy_price = new_avg_price,
                 !.total_invested = new_invested]

\* a sell branch without the "Cannot sell more than owned" return
SellNeverRejected(h, quantity_change) == FALSE

\* the sell branch of update_holding: "Cannot sell more than owned"
SellRejected(h, quantity_change) ==
    RNeg(RSub(h.quantity, quantity_change))

\* a sell that forgets to reduce total_invested
SellKeepsInvested(h, quantity_change) ==
    [h EXCEPT !.quantity = RSub(h.quantity, quantity_change)]

\* a sell that takes the reduction ratio against the quantity left
SellWrongRatio(h, quantity_change) ==
    LET new_quantity == RSub(h.quantity, quantity_change)
        new_invested == IF RPos(new_quantity)
                        THEN RMul(h.total_invested,
                                  RSub(One, RDiv(quantity_change, new_quantity)))
                        ELSE Zero
    IN [h EXCEPT !.quantity = new_quantity, !.total_invested = new_invested]

\* a sell that subtracts one currency unit per unit sold
SellFlatReduction(h, quantity_change) ==
    [h EXCEPT !.quantity = RSub(h.quantity, quantity_change),
              !.total_invested = RSub(h.total_invested, quantity_change)]

\* the sell branch of update_holding: the row it writes
SellResult(h, quantity_change) ==
    LET new_quantity == RSub(h.quantity, quantity_change)
        new_invested == IF RPos(h.quantity)
                        THEN RMul(h.total_invested,
                                  RSub(One, RDiv(quantity_change, h.quantity)))
                        ELSE Zero
    IN [h EXCEPT !.quantity = new_quantity, !.total_invested = new_invested]

\* an update_holding whose sell takes the proceeds out of total_invested
UpdateHoldingRealizes(h, quantity_change, price_per_unit, is_buy, raises) ==
    IF is_buy
    THEN IF raises THEN [ok |-> FALSE, row |-> h]
         ELSE [ok |-> TRUE, row |-> BuyResult(h, quantity_change, price_per_unit)]
    ELSE IF SellRejected(h, quantity_change) THEN [ok |-> FALSE, row |-> h]
         ELSE IF raises THEN [ok |-> FALSE, row |-> h]
         ELSE [ok |-> TRUE,
               row |-> [h EXCEPT !.quantity = RSub(h.quantity, quantity_change),
                                 !.total_invested =
                                     RSub(h.total_invested,
                                          RMul(quantity_change, price_per_unit))]]

\* update_holding(self = h, ...): its return value and the row afterwards;
\* raises = the UPDATE raised (caught: return False, nothing written)
UpdateHolding(h, quantity_change, price_per_unit, is_buy, raises) ==
    IF is_buy
    THEN IF raises THEN [ok |-> FALSE, row |-> h]
         ELSE [ok |-> TRUE, row |-> BuyResult(h, quantity_change, price_per_unit)]
    ELSE IF SellRejected(h, quantity_change) THEN [ok |-> FALSE, row |-> h]
         ELSE IF raises THEN [ok |-> FALSE, row |-> h]
         ELSE [ok |-> TRUE, row |-> SellResult(h, quantity_change)]

\* a query of this call raises: counted, and capped to keep the model finite
Raise(fail) ==
    /\ fail # "none" => faults < MaxFaults
    /\ faults' = IF fail # "none" THEN faults + 1 ELSE faults

\* PortfolioHolding.get_by_portfolio_and_crypto: the rows fetch_one may return
Lookup(portfolio_id, crypto_id) ==
    IF Matching(portfolio_id, crypto_id) = {} THEN {None}
    ELSE Matching(portfolio_id, crypto_id)

\* What one call of get_or_create does, given the row its SELECT returns:
\* raised (the SELECT's exception leaves the method), the holding returned
\* (None when the INSERT or the re-read raised: both are caught) and the
\* table afterwards.
GetOrCreateOutcome(portfolio_id, crypto_id, fail, holding) ==
    LET fresh == NewHolding(next_holding_id, portfolio_id, crypto_id)
    IN  IF fail = "lookup"
        THEN [raised |-> TRUE, holding |-> None, hs |-> holdings]
        ELSE IF holding # None
        THEN [raised |-> FALSE, holding |-> holding, hs |-> holdings]
        ELSE IF fail = "newholding"
        THEN [raised |-> FALSE, holding |-> None, hs |-> holdings]
        ELSE IF fail = "reload"
        THEN [raised |-> FALSE, holding |-> None, hs |-> holdings \cup {fresh}]
        ELSE [raised |-> FALSE, holding |-> fresh, hs |-> holdings \cup {fresh}]

\* AUTO_INCREMENT of PortfolioHolding after a call that left the table hs
HoldingIdAfter(hs) ==
    IF Cardinality(hs) > Cardinality(holdings) THEN next_holding_id + 1
    ELSE next_holding_id

GetOrCreateFails == {"none", "lookup", "newholding", "reload"}

\* PortfolioHolding.get_or_create(portfolio_id, crypto_id), called directly
GetOrCreate(portfolio_id, crypto_id, fail) ==
    /\ direct_calls < MaxDirect
    /\ direct_calls' = direct_calls + 1
    /\ Raise(fail)
    /\ \E holding \in Lookup(portfolio_id, crypto_id) :
         LET g == GetOrCreateOutcome(portfolio_id, crypto_id, fail, holding)
         IN /\ holdings' = g.hs
            /\ next_holding_id' = HoldingIdAfter(g.hs)
            /\ last' = [NoCall EXCEPT !.op = "get_or_create",
                           !.portfolio_id = portfolio_id, !.crypto_id = crypto_id,
                           !.fail = fail, !.before = holding,
                           !.result = IF g.raised THEN "raised"
                                      ELSE IF g.holding = None THEN "none"
                                      ELSE "holding"]
    /\ UNCHANGED <<transactions, next_tx_id, prices, procs, base,
                   fetcher, db>>

UpdateFails == {"none", "update"}

\* h.update_holding(quantity_change, price_per_unit, is_buy), called directly
\* on the object of a stored holding
UpdateHoldingCall(h, quantity_change, price_per_unit, is_buy, fail) ==
    /\ h \in holdings
    /\ direct_calls < MaxDirect
    /\ direct_calls' = direct_calls + 1
    /\ Raise(fail)
    /\ LET u == UpdateHolding(h, Num(quantity_change), Num(price_per_unit),
                              is_buy, fail = "update")
       IN /\ holdings' = (holdings \ {h}) \cup {u.row}
          /\ last' = [NoCall EXCEPT !.op = "update_holding",
                         !.portfolio_id = h.portfolio_id, !.crypto_id = h.crypto_id,
                         !.type = IF is_buy THEN "buy" ELSE "sell",
                         !.quantity = quantity_change,
                         !.price_per_unit = price_per_unit,
                         !.fail = fail, !.before = h,
                         !.result = IF u.ok THEN "true" ELSE "false",
                         !.updated = u.ok]
    /\ UNCHANGED <<transactions, next_tx_id, next_holding_id, prices, procs, base,
                   fetcher, db>>

\* ---- Transaction ----

\* a balance check that only looks for the holding row
InsufficientBalanceNoCompare(holding, quantity) == holding = None

\* no balance check at all
InsufficientBalanceUnchecked(holding, quantity) == FALSE

\* Transaction.create: `if not holding or holding.quantity < quantity`
InsufficientBalance(holding, quantity) ==
    holding = None \/ RLt(holding.quantity, quantity)

\* a column without a value (Python None, SQL NULL)
Null == "NULL"

\* INSERT INTO Transaction (...) VALUES (...), with create's defaults
\* fee = 0.0, exchange = None, notes = None
NewTransaction(transaction_id, portfolio_id, crypto_id, transaction_type, quantity, price_per_unit) ==
    [transaction_id |-> transaction_id, portfolio_id |-> portfolio_id,
     crypto_id |-> crypto_id, type |-> transaction_type,
     quantity |-> quantity, price_per_unit |-> price_per_unit,
     fee |-> 0, exchange |-> Null, notes |-> Null]

\* What one call of Transaction.create does, given the holding row its
\* SELECTs return: result ("tx" = a Transaction, "none" = None), the two
\* tables afterwards, and what happened on the way.
CreateOutcome(portfolio_id, crypto_id, transaction_type, quantity, price_per_unit, fail, holding) ==
    LET same == [result |-> "none", rejected |-> FALSE, inserted |-> FALSE,
                 updated |-> FALSE, txs |-> transactions, hs |-> holdings]
        row == NewTransaction(next_tx_id, portfolio_id, crypto_id,
                              transaction_type, quantity, price_per_unit)
        g == GetOrCreateOutcome(portfolio_id, crypto_id, fail, holding)
        u == UpdateHolding(g.holding, Num(quantity), Num(price_per_unit),
                           transaction_type = "buy", fail = "update")
    IN  IF transaction_type \notin {"buy", "sell"} THEN same
        ELSE IF transaction_type = "sell" /\ fail = "check" THEN same
        ELSE IF transaction_type = "sell"
                /\ InsufficientBalance(holding, Num(quantity))
        THEN [same EXCEPT !.rejected = TRUE]
        ELSE IF fail = "insert" THEN same
        \* the Transaction row is committed from here on
        ELSE IF g.holding = None
        \* get_or_create raised, or returned None and holding.update_holding
        \* raised AttributeError: `except Exception` returns None
        THEN [same EXCEPT !.inserted = TRUE, !.txs = transactions \cup {row},
                          !.hs = g.hs]
        \* the value update_holding returns is not looked at
        ELSE [result |-> IF fail = "fetch" THEN "none" ELSE "tx",
              rejected |-> FALSE, inserted |-> TRUE, updated |-> u.ok,
              txs |-> transactions \cup {row},
              hs |-> (g.hs \ {g.holding}) \cup {u.row}]

CreateFails == {"none", "check", "insert", "lookup", "newholding", "reload",
                "update", "fetch"}

\* the call runs the query that `fail` names
CreateReaches(transaction_type, quantity, fail, holding) ==
    \/ fail = "none"
    \/ fail = "check" /\ transaction_type = "sell"
    \/ /\ fail \in {"insert", "lookup", "update", "fetch"}
       /\ transaction_type = "sell" => ~InsufficientBalance(holding, Num(quantity))
    \/ /\ fail \in {"newholding", "reload"}
       /\ transaction_type = "buy" /\ holding = None

\* Transaction.create(user_id, portfolio_id, crypto_id, transaction_type,
\*                    quantity, price_per_unit)
Create(portfolio_id, crypto_id, transaction_type, quantity, price_per_unit, fail) ==
    /\ Raise(fail)
    /\ \E holding \in Lookup(portfolio_id, crypto_id) :
         /\ CreateReaches(transaction_type, quantity, fail, holding)
         /\ \E o \in {CreateOutcome(portfolio_id, crypto_id, transaction_type,
                                   quantity, price_per_unit, fail, holding)} :
               /\ transactions' = o.txs
               /\ holdings' = o.hs
               /\ next_tx_id' = IF o.inserted THEN next_tx_id + 1 ELSE next_tx_id
               /\ next_holding_id' = HoldingIdAfter(o.hs)
               /\ last' = [NoCall EXCEPT !.op = "create",
                              !.portfolio_id = portfolio_id, !.crypto_id = crypto_id,
                              !.type = transaction_type, !.quantity = quantity,
                              !.price_per_unit = price_per_unit, !.fail = fail,
                              !.before = holding, !.result = o.result,
                              !.rejected = o.rejected, !.inserted = o.inserted,
                              !.updated = o.updated,
                              !.transaction_id = IF o.inserted THEN next_tx_id ELSE 0]
    /\ UNCHANGED <<direct_calls, prices, procs, base,
                   fetcher, db>>

\* a delete that applies the transaction's own direction once more
DeleteOutcomeSameDirection(t, fail, holding) ==
    LET u == IF holding = None THEN [ok |-> FALSE, row |-> holding]
             ELSE UpdateHolding(holding, Num(t.quantity), Num(t.price_per_unit),
                                t.type = "buy", fail = "update")
        hs == IF holding = None THEN holdings
              ELSE (holdings \ {holding}) \cup {u.row}
    IN  [result |-> "true", updated |-> u.ok, removed |-> TRUE,
         txs |-> transactions \ {t}, hs |-> hs]

\* a delete that also drops the holding row once nothing is left in it
DeleteOutcomeDropsEmpty(t, fail, holding) ==
    LET u == IF holding = None THEN [ok |-> FALSE, row |-> holding]
             ELSE UpdateHolding(holding, Num(t.quantity), Num(t.price_per_unit),
                                t.type # "buy", fail = "update")
        hs == IF holding = None THEN holdings
              ELSE IF u.row.quantity = Zero THEN holdings \ {holding}
              ELSE (holdings \ {holding}) \cup {u.row}
    IN  [result |-> "true", updated |-> u.ok, removed |-> TRUE,
         txs |-> transactions \ {t}, hs |-> hs]

\* a delete that removes the row and leaves the holding as it is
DeleteOutcomeNoReversal(t, fail, holding) ==
    [result |-> "true", updated |-> FALSE, removed |-> TRUE,
     txs |-> transactions \ {t}, hs |-> holdings]

\* What one call of Transaction.delete does on the row t, given the holding
\* its SELECT returns: result (True/False), the two tables afterwards.
DeleteOutcome(t, fail, holding) ==
    LET same == [result |-> "false", updated |-> FALSE, removed |-> FALSE,
                 txs |-> transactions, hs |-> holdings]
        \* reverse buy = sell the amount, reverse sell = buy back the amount
        u == IF holding = None THEN [ok |-> FALSE, row |-> holding]
             ELSE UpdateHolding(holding, Num(t.quantity), Num(t.price_per_unit),
                                t.type # "buy", fail = "update")
        hs == IF holding = None THEN holdings
              ELSE (holdings \ {holding}) \cup {u.row}
    IN  IF fail = "lookup" THEN same
        ELSE IF fail = "delete" THEN [same EXCEPT !.hs = hs, !.updated = u.ok]
        ELSE [result |-> "true", updated |-> u.ok, removed |-> TRUE,
              txs |-> transactions \ {t}, hs |-> hs]

DeleteFails == {"none", "lookup", "update", "delete"}

\* the call runs the query that `fail` names
DeleteReaches(t, fail, holding) ==
    fail = "update"
    => /\ holding # None
       /\ t.type = "buy" => ~SellRejected(holding, Num(t.quantity))

\* Transaction.delete(self = t)
Delete(t, fail) ==
    /\ t \in transactions
    /\ Raise(fail)
    /\ \E holding \in Lookup(t.portfolio_id, t.crypto_id) :
         /\ DeleteReaches(t, fail, holding)
         /\ \E o \in {DeleteOutcome(t, fail, holding)},
               undoes \in {/\ last.op = "create" /\ last.result = "tx"
                           /\ last.updated
                           /\ last.transaction_id = t.transaction_id} :
               /\ transactions' = o.txs
               /\ holdings' = o.hs
               /\ last' = [NoCall EXCEPT !.op = "delete",
                              !.portfolio_id = t.portfolio_id,
                              !.crypto_id = t.crypto_id, !.type = t.type,
                              !.quantity = t.quantity,
                              !.price_per_unit = t.price_per_unit, !.fail = fail,
                              !.before = holding, !.result = o.result,
                              !.updated = o.updated, !.removed = o.removed,
                              !.transaction_id = t.transaction_id,
                              !.undoes = undoes,
                              !.undone = IF undoes THEN last.before ELSE None]
    /\ UNCHANGED <<next_tx_id, next_holding_id, direct_calls, prices, procs, base,
                   fetcher, db>>

\* fewer than `rows` Transaction rows were inserted so far
Room(rows) == next_tx_id <= rows

\* ---- the ledger as the application drives it: validated events, and a
\* database that answers every query ----
Next ==
    \/ \E portfolio_id \in Portfolios, crypto_id \in Cryptos, type \in Types,
          quantity \in Quantities, price_per_unit \in Prices :
         /\ Room(MaxTx)
         /\ Create(portfolio_id, crypto_id, type, quantity, price_per_unit, "none")
    \/ \E t \in transactions : Delete(t, "none")

Spec == Init /\ [][Next]_vars

\* ---- the same ledger over a database whose queries may raise ----
NextFaulty ==
    \/ \E portfolio_id \in Portfolios, crypto_id \in Cryptos, type \in Types,
          quantity \in Quantities, price_per_unit \in Prices, fail \in CreateFails :
         /\ Room(MaxFaultyTx)
         /\ Create(portfolio_id, crypto_id, type, quantity, price_per_unit, fail)
    \/ \E t \in transactions, fail \in DeleteFails : Delete(t, fail)

SpecFaulty == Init /\ [][NextFaulty]_vars

\* ---- the model methods called directly, with arguments nobody validated ----
NextRaw ==
    \/ \E portfolio_id \in Portfolios, crypto_id \in Cryptos, type \in RawTypes,
          quantity \in RawQuantities, price_per_unit \in RawPrices :
         /\ Room(MaxRawTx)
         /\ Create(portfolio_id, crypto_id, type, quantity, price_per_unit, "none")
    \/ \E portfolio_id \in Portfolios, crypto_id \in Cryptos,
          fail \in GetOrCreateFails : GetOrCreate(portfolio_id, crypto_id, fail)
    \/ \E h \in holdings, quantity \in RawQuantities, price_per_unit \in RawPrices,
          is_buy \in BOOLEAN, fail \in UpdateFails :
         UpdateHoldingCall(h, quantity, price_per_unit, is_buy, fail)

SpecRaw == Init /\ [][NextRaw]_vars

\* ---- valuation: Price, PortfolioHolding, Portfolio, the overview ----

\* SELECT price FROM Price WHERE crypto_id = %s ORDER BY datetime DESC LIMIT 1
LatestPrice(quotes, crypto_id) == {r \in quotes : r.crypto_id = crypto_id}

\* Price.create(crypto_id, price): the new row is the latest of its crypto
PriceCreate(crypto_id, price) ==
    /\ prices' = (prices \ LatestPrice(prices, crypto_id))
                     \cup {[crypto_id |-> crypto_id, price |-> price]}
    /\ last' = [NoCall EXCEPT !.op = "price", !.crypto_id = crypto_id,
                              !.price_per_unit = price]
    /\ UNCHANGED <<holdings, transactions, next_tx_id, next_holding_id,
                   direct_calls, faults, procs, base,
                   fetcher, db>>

\* a current value that falls back to the cost when no price is known
GetCurrentValueAtCost(h, quotes) ==
    IF LatestPrice(quotes, h.crypto_id) = {} THEN h.total_invested
    ELSE LET result == CHOOSE r \in LatestPrice(quotes, h.crypto_id) : TRUE
         IN RMul(h.quantity, Num(result.price))

\* PortfolioHolding.get_current_value(self = h)
GetCurrentValue(h, quotes) ==
    IF LatestPrice(quotes, h.crypto_id) = {} THEN Zero
    ELSE LET result == CHOOSE r \in LatestPrice(quotes, h.crypto_id) : TRUE
         IN RMul(h.quantity, Num(result.price))

\* PortfolioHolding.get_profit_loss(self = h)
HoldingProfitLoss(h, quotes) ==
    LET current_value == GetCurrentValue(h, quotes)
        profit_loss == RSub(current_value, h.total_invested)
    IN  IF h.total_invested = Zero
        THEN [amount |-> Zero, percentage |-> Zero]
        ELSE [amount |-> profit_loss,
              percentage |-> RMul(RDiv(profit_loss, h.total_invested), Num(100))]

\* OverviewFrame.create_asset_row(holding): the figures of one row
CreateAssetRow(holding, quotes) ==
    LET latest == LatestPrice(quotes, holding.crypto_id)
        current_price == IF latest = {} THEN Zero
                         ELSE Num((CHOOSE r \in latest : TRUE).price)
        current_value == RMul(holding.quantity, current_price)
        profit_loss == RSub(current_value, holding.total_invested)
    IN  [current_value |-> current_value, amount |-> profit_loss,
         percentage |-> IF RPos(holding.total_invested)
                        THEN RMul(RDiv(profit_loss, holding.total_invested),
                                  Num(100))
                        ELSE Zero]

\* a listing without the `ph.quantity > 0` condition
GetHoldingsAll(rows, portfolio_id) ==
    {h \in rows : h.portfolio_id = portfolio_id}

\* Portfolio.get_holdings: WHERE ph.portfolio_id = %s AND ph.quantity > 0
\* (the ORDER BY of the listing is left out: the rows are taken as a set)
GetHoldings(rows, portfolio_id) ==
    {h \in rows : h.portfolio_id = portfolio_id /\ RPos(h.quantity)}

\* SUM(ph.quantity * p.price) over rows: a row without a Price row gives NULL,
\* which SUM skips; a NULL sum is returned as 0.0
RECURSIVE SumValue(_, _)
SumValue(rows, quotes) ==
    IF rows = {} THEN Zero
    ELSE LET h == CHOOSE r \in rows : TRUE
         IN RAdd(GetCurrentValue(h, quotes), SumValue(rows \ {h}, quotes))

\* SUM(total_invested) over rows; a NULL sum is returned as 0.0
RECURSIVE SumInvested(_)
SumInvested(rows) ==
    IF rows = {} THEN Zero
    ELSE LET h == CHOOSE r \in rows : TRUE
         IN RAdd(h.total_invested, SumInvested(rows \ {h}))

\* Portfolio.get_total_value(self)
GetTotalValue(rows, quotes, portfolio_id) ==
    SumValue(GetHoldings(rows, portfolio_id), quotes)

\* Portfolio.get_total_invested(self)
GetTotalInvested(rows, portfolio_id) ==
    SumInvested(GetHoldings(rows, portfolio_id))

\* a summary that reports a portfolio without capital as a total loss
PortfolioProfitLossTotalLoss(rows, quotes, portfolio_id) ==
    LET total_value == GetTotalValue(rows, quotes, portfolio_id)
        total_invested == GetTotalInvested(rows, portfolio_id)
        profit_loss == RSub(total_value, total_invested)
    IN  IF total_invested = Zero
        THEN [amount |-> Zero, percentage |-> Num(-100)]
        ELSE [amount |-> profit_loss,
              percentage |-> RMul(RDiv(profit_loss, total_invested), Num(100))]

\* Portfolio.get_profit_loss(self)
PortfolioProfitLoss(rows, quotes, portfolio_id) ==
    LET total_value == GetTotalValue(rows, quotes, portfolio_id)
        total_invested == GetTotalInvested(rows, portfolio_id)
        profit_loss == RSub(total_value, total_invested)
    IN  IF total_invested = Zero
        THEN [amount |-> Zero, percentage |-> Zero]
        ELSE [amount |-> profit_loss,
              percentage |-> RMul(RDiv(profit_loss, total_invested), Num(100))]

\* h.get_profit_loss() on the object of a stored holding
GetProfitLoss(h) ==
    /\ h \in holdings
    /\ last' = [NoCall EXCEPT !.op = "get_profit_loss",
                   !.portfolio_id = h.portfolio_id, !.crypto_id = h.crypto_id,
                   !.before = h, !.quotes = prices,
                   !.current_value = GetCurrentValue(h, prices),
                   !.amount = HoldingProfitLoss(h, prices).amount,
                   !.percentage = HoldingProfitLoss(h, prices).percentage]
    /\ UNCHANGED <<holdings, transactions, next_tx_id, next_holding_id,
                   direct_calls, faults, prices, procs, base,
                   fetcher, db>>

\* the overview draws the row of one of the holdings with quantity > 0
AssetRow(h) ==
    /\ h \in GetHoldings(holdings, h.portfolio_id)
    /\ last' = [NoCall EXCEPT !.op = "create_asset_row",
                   !.portfolio_id = h.portfolio_id, !.crypto_id = h.crypto_id,
                   !.before = h, !.quotes = prices,
                   !.current_value = CreateAssetRow(h, prices).current_value,
                   !.amount = CreateAssetRow(h, prices).amount,
                   !.percentage = CreateAssetRow(h, prices).percentage]
    /\ UNCHANGED <<holdings, transactions, next_tx_id, next_holding_id,
                   direct_calls, faults, prices, procs, base,
                   fetcher, db>>

\* the overview's summary of a portfolio: get_total_value, get_total_invested,
\* get_profit_loss and the listing get_holdings
PortfolioSummary(portfolio_id) ==
    /\ last' = [NoCall EXCEPT !.op = "summary", !.portfolio_id = portfolio_id,
                   !.rows = holdings, !.quotes = prices,
                   !.total_value = GetTotalValue(holdings, prices, portfolio_id),
                   !.total_invested = GetTotalInvested(holdings, portfolio_id),
                   !.amount =
                       PortfolioProfitLoss(holdings, prices, portfolio_id).amount,
                   !.percentage =
                       PortfolioProfitLoss(holdings, prices, portfolio_id).percentage,
                   !.listed = GetHoldings(holdings, portfolio_id)]
    /\ UNCHANGED <<holdings, transactions, next_tx_id, next_holding_id,
                   direct_calls, faults, prices, procs, base,
                   fetcher, db>>

\* ---- the ledger with a price feed, valued after any event; the events
\* reach Transaction.create as they are ----
NextValuation ==
    \/ \E portfolio_id \in Portfolios, crypto_id \in Cryptos, type \in Types,
          quantity \in ValuedQuantities, price_per_unit \in RawPrices :
         /\ Room(MaxValTx)
         /\ Create(portfolio_id, crypto_id, type, quantity, price_per_unit, "none")
    \/ \E crypto_id \in Cryptos, price \in Prices : PriceCreate(crypto_id, price)
    \/ \E h \in holdings : GetProfitLoss(h)
    \/ \E h \in holdings : AssetRow(h)
    \/ \E portfolio_id \in Portfolios : PortfolioSummary(portfolio_id)

SpecValuation == Init /\ [][NextValuation]_vars

\* ---- the calls of test_portfolio_holding_model, in any order ----

\* its update_holding calls: quantity_change, price_per_unit, is_buy
ScenarioEvents ==
    {[quantity |-> Rat(1, 2), price_per_unit |-> 50000, is_buy |-> TRUE],
     [quantity |-> Rat(3, 10), price_per_unit |-> 55000, is_buy |-> TRUE],
     [quantity |-> Num(2), price_per_unit |-> 3000, is_buy |-> TRUE],
     [quantity |-> Rat(1, 5), price_per_unit |-> 60000, is_buy |-> FALSE]}

\* the prices the feed may have stored when to_dict values the holding
ScenarioPrices == {55000, 60000}

\* PortfolioHolding.get_or_create(portfolio.portfolio_id, crypto_id)
ScenarioOpen(portfolio_id, crypto_id) ==
    /\ direct_calls < MaxScenarioCalls
    /\ direct_calls' = direct_calls + 1
    /\ \E holding \in Lookup(portfolio_id, crypto_id) :
         LET g == GetOrCreateOutcome(portfolio_id, crypto_id, "none", holding)
         IN /\ holdings' = g.hs
            /\ next_holding_id' = HoldingIdAfter(g.hs)
            /\ last' = [NoCall EXCEPT !.op = "get_or_create",
                           !.portfolio_id = portfolio_id, !.crypto_id = crypto_id,
                           !.before = holding, !.result = "holding"]
    /\ UNCHANGED <<transactions, next_tx_id, faults, prices, procs, base,
                   fetcher, db>>

\* holding.update_holding(quantity_change, price_per_unit, is_buy) on the
\* object a get_or_create returned; last.quantity is the float itself here
ScenarioUpdate(h, e) ==
    /\ h \in holdings
    /\ direct_calls < MaxScenarioCalls
    /\ direct_calls' = direct_calls + 1
    /\ LET u == UpdateHolding(h, e.quantity, Num(e.price_per_unit), e.is_buy,
                              FALSE)
       IN /\ holdings' = (holdings \ {h}) \cup {u.row}
          /\ last' = [NoCall EXCEPT !.op = "update_holding",
                         !.portfolio_id = h.portfolio_id, !.crypto_id = h.crypto_id,
                         !.type = IF e.is_buy THEN "buy" ELSE "sell",
                         !.quantity = e.quantity,
                         !.price_per_unit = e.price_per_unit,
                         !.before = h,
                         !.result = IF u.ok THEN "true" ELSE "false",
                         !.updated = u.ok]
    /\ UNCHANGED <<transactions, next_tx_id, next_holding_id, faults, prices, procs, base,
                   fetcher, db>>

NextScenario ==
    \/ \E portfolio_id \in Portfolios, crypto_id \in Cryptos :
         ScenarioOpen(portfolio_id, crypto_id)
    \/ \E h \in holdings, e \in ScenarioEvents : ScenarioUpdate(h, e)
    \/ \E crypto_id \in Cryptos, price \in ScenarioPrices :
         PriceCreate(crypto_id, price)
    \/ \E h \in holdings : GetProfitLoss(h)

SpecScenario == Init /\ [][NextScenario]_vars

\* ---- two callers at once: every execute_query is one step, on its own
\* autocommitted connection, and nothing is locked between two steps ----

\* the call of caller c has returned this: its local variables are gone
Returned(c, result) ==
    [c EXCEPT !.pc = "done", !.found = None, !.holding = None,
              !.added = FALSE, !.result = result]

\* p is between two queries of a call
Running(p) == procs[p].pc \notin {"idle", "done"}

\* the first query of a call
FirstStep(op, transaction_type) ==
    IF op = "get_or_create" THEN "lookup"
    ELSE IF transaction_type = "sell" THEN "check" ELSE "insert"

\* p calls Transaction.create(...) or PortfolioHolding.get_or_create(...);
\* a call that starts while nobody else is inside one opens a new round
Begin(p, op, portfolio_id, crypto_id, transaction_type, quantity, price_per_unit) ==
    /\ ~Running(p)
    /\ LET call == [Idle EXCEPT !.pc = FirstStep(op, transaction_type),
                        !.op = op, !.portfolio_id = portfolio_id,
                        !.crypto_id = crypto_id, !.type = transaction_type,
                        !.quantity = quantity, !.price_per_unit = price_per_unit]
       IN IF \A q \in Procs : ~Running(q)
          THEN /\ base' = holdings
               /\ procs' = [q \in Procs |-> IF q = p THEN call ELSE Idle]
          ELSE /\ base' = base
               /\ procs' = [procs EXCEPT ![p] = call]
    /\ UNCHANGED <<holdings, transactions, next_tx_id, next_holding_id,
                   direct_calls, faults, prices, last,
                   fetcher, db>>

\* Transaction.create: the balance check of a sell
CheckStep(p) ==
    /\ procs[p].pc = "check"
    /\ \E holding \in Lookup(procs[p].portfolio_id, procs[p].crypto_id) :
         procs' = [procs EXCEPT ![p] =
                      IF InsufficientBalance(holding, Num(procs[p].quantity))
                      THEN Returned(@, "none")
                      ELSE [@ EXCEPT !.pc = "insert"]]
    /\ UNCHANGED <<holdings, transactions, next_tx_id, next_holding_id,
                   direct_calls, faults, prices, last, base,
                   fetcher, db>>

\* Transaction.create: INSERT INTO Transaction
InsertStep(p) ==
    /\ procs[p].pc = "insert"
    /\ transactions' = transactions \cup
           {NewTransaction(next_tx_id, procs[p].portfolio_id, procs[p].crypto_id,
                           procs[p].type, procs[p].quantity,
                           procs[p].price_per_unit)}
    /\ next_tx_id' = next_tx_id + 1
    /\ procs' = [procs EXCEPT ![p].pc = "lookup"]
    /\ UNCHANGED <<holdings, next_holding_id, direct_calls, faults, prices,
                   last, base,
                   fetcher, db>>

\* get_or_create inserts although its SELECT returned a row
AfterLookupAlwaysInsert(op, holding) == "newholding"

\* get_or_create: `if not holding:` sends it to the INSERT, otherwise the
\* row is returned (to update_holding inside Transaction.create)
AfterLookup(op, holding) ==
    IF holding = None THEN "newholding"
    ELSE IF op = "create" THEN "update" ELSE "done"

\* get_or_create: the SELECT of get_by_portfolio_and_crypto
LookupStep(p) ==
    /\ procs[p].pc = "lookup"
    /\ \E holding \in Lookup(procs[p].portfolio_id, procs[p].crypto_id) :
         procs' = [procs EXCEPT ![p] =
                      IF AfterLookup(procs[p].op, holding) = "done"
                      THEN Returned(@, "holding")
                      ELSE [@ EXCEPT !.pc = AfterLookup(procs[p].op, holding),
                                     !.found = holding, !.holding = holding]]
    /\ UNCHANGED <<holdings, transactions, next_tx_id, next_holding_id,
                   direct_calls, faults, prices, last, base,
                   fetcher, db>>

\* the table refuses a second row of a pair (Identity: unique)
DuplicateEntry(portfolio_id, crypto_id) ==
    Matching(portfolio_id, crypto_id) # {}

\* get_or_create: INSERT INTO PortfolioHolding; refused, the exception is
\* caught, get_or_create returns None and Transaction.create returns None
\* at `holding.update_holding`
NewHoldingStep(p) ==
    /\ procs[p].pc = "newholding"
    /\ IF DuplicateEntry(procs[p].portfolio_id, procs[p].crypto_id)
       THEN /\ procs' = [procs EXCEPT ![p] = Returned(@, "none")]
            /\ UNCHANGED <<holdings, next_holding_id>>
       ELSE /\ holdings' = holdings \cup
                   {NewHolding(next_holding_id, procs[p].portfolio_id,
                               procs[p].crypto_id)}
            /\ next_holding_id' = next_holding_id + 1
            /\ procs' = [procs EXCEPT ![p] =
                            [@ EXCEPT !.pc = "reload", !.added = TRUE,
                                      !.holding = NewHolding(next_holding_id,
                                                     procs[p].portfolio_id,
                                                     procs[p].crypto_id)]]
    /\ UNCHANGED <<transactions, next_tx_id, direct_calls, faults, prices,
                   last, base,
                   fetcher, db>>

\* get_or_create: cls.get_by_id(holding_id) reads the row as it is by now
ReloadStep(p) ==
    /\ procs[p].pc = "reload"
    /\ \E h \in holdings :
         /\ h.holding_id = procs[p].holding.holding_id
         /\ procs' = [procs EXCEPT ![p] =
                         IF procs[p].op = "create"
                         THEN [@ EXCEPT !.pc = "update", !.holding = h]
                         ELSE Returned(@, "holding")]
    /\ UNCHANGED <<holdings, transactions, next_tx_id, next_holding_id,
                   direct_calls, faults, prices, last, base,
                   fetcher, db>>

\* UPDATE PortfolioHolding SET ... WHERE holding_id = %s: a buy sets the
\* three figures, a sell sets quantity and total_invested
Written(row, u, is_buy) ==
    IF is_buy THEN [u EXCEPT !.holding_id = row.holding_id]
    ELSE [row EXCEPT !.quantity = u.quantity,
                     !.total_invested = u.total_invested]

\* Transaction.create: holding.update_holding(...) computes from the fields
\* of the object this caller loaded, then writes; the row of the new
\* transaction is fetched and returned whatever update_holding returned
UpdateStep(p) ==
    /\ procs[p].pc = "update"
    /\ LET u == UpdateHolding(procs[p].holding, Num(procs[p].quantity),
                              Num(procs[p].price_per_unit),
                              procs[p].type = "buy", FALSE)
       IN /\ holdings' =
                 IF u.ok
                 THEN {IF h.holding_id = procs[p].holding.holding_id
                       THEN Written(h, u.row, procs[p].type = "buy")
                       ELSE h : h \in holdings}
                 ELSE holdings
          /\ procs' = [procs EXCEPT ![p] = Returned(@, "tx")]
    /\ UNCHANGED <<transactions, next_tx_id, next_holding_id, direct_calls,
                   faults, prices, last, base,
                   fetcher, db>>

NextConcurrent ==
    \/ \E p \in Procs, portfolio_id \in Portfolios, crypto_id \in Cryptos,
          type \in Types, quantity \in ConcurrentQuantities,
          price_per_unit \in ConcurrentPrices :
         /\ Room(MaxConcurrentTx)
         /\ Begin(p, "create", portfolio_id, crypto_id, type, quantity,
                  price_per_unit)
    \/ \E p \in Procs, portfolio_id \in Portfolios, crypto_id \in Cryptos :
         /\ Room(MaxConcurrentTx)
         /\ Begin(p, "get_or_create", portfolio_id, crypto_id, "", 0, 0)
    \/ \E p \in Procs : CheckStep(p)
    \/ \E p \in Procs : InsertStep(p)
    \/ \E p \in Procs : LookupStep(p)
    \/ \E p \in Procs : NewHoldingStep(p)
    \/ \E p \in Procs : ReloadStep(p)
    \/ \E p \in Procs : UpdateStep(p)

SpecConcurrent == Init /\ [][NextConcurrent]_vars

\* ---- Transaction.update and Transaction.get_total_cost ----

\* the keywords a caller may pass to update: the three it takes and one of
\* the columns it must not touch
EditKeys == {"notes", "exchange", "fee", "quantity"}

\* update: allowed_fields = ['notes', 'exchange', 'fee']
AllowedFields == {"notes", "exchange", "fee"}

\* **kwargs: the keywords given, and the value of each
Kwargs ==
    [given : SUBSET EditKeys, notes : {"hodl"}, exchange : {"Binance"},
     fee : Fees, quantity : {7}]

\* the row with the columns `keys` set from kwargs
Assigned(t, kwargs, keys) ==
    [t EXCEPT !.notes = IF "notes" \in keys THEN kwargs.notes ELSE @,
              !.exchange = IF "exchange" \in keys THEN kwargs.exchange ELSE @,
              !.fee = IF "fee" \in keys THEN kwargs.fee ELSE @,
              !.quantity = IF "quantity" \in keys THEN kwargs.quantity ELSE @]

\* an update that writes every keyword it is given
UpdateOutcomeAnyField(t, kwargs, raises) ==
    IF kwargs.given = {} THEN [result |-> "false", row |-> t]
    ELSE IF raises THEN [result |-> "false", row |-> t]
    ELSE [result |-> "true", row |-> Assigned(t, kwargs, kwargs.given)]

\* What t.update(**kwargs) returns and the row afterwards (the stored row
\* and the object's attributes are set from the same keywords);
\* raises = the UPDATE raised (caught: return False, nothing written)
UpdateOutcome(t, kwargs, raises) ==
    LET fields == {field \in AllowedFields : field \in kwargs.given}
    IN  IF fields = {} THEN [result |-> "false", row |-> t]
        ELSE IF raises THEN [result |-> "false", row |-> t]
        ELSE [result |-> "true", row |-> Assigned(t, kwargs, fields)]

\* Transaction.update(self = t, **kwargs)
Update(t, kwargs, fail) ==
    /\ t \in transactions
    /\ direct_calls < MaxEdits
    /\ direct_calls' = direct_calls + 1
    /\ Raise(fail)
    /\ fail = "update" => kwargs.given \cap AllowedFields # {}
    /\ \E o \in {UpdateOutcome(t, kwargs, fail = "update")} :
         /\ transactions' = (transactions \ {t}) \cup {o.row}
         /\ last' = [NoCall EXCEPT !.op = "update",
                        !.portfolio_id = t.portfolio_id, !.crypto_id = t.crypto_id,
                        !.transaction_id = t.transaction_id, !.fail = fail,
                        !.given = kwargs.given, !.result = o.result]
    /\ UNCHANGED <<holdings, next_tx_id, next_holding_id, prices, procs, base,
                   fetcher, db>>

\* Transaction.get_total_cost(self = t)
TotalCost(t) ==
    LET base_amount == t.quantity * t.price_per_unit
    IN  IF t.type = "buy" THEN base_amount + t.fee ELSE base_amount - t.fee

\* t.get_total_cost() on the object of a stored transaction
GetTotalCost(t) ==
    /\ t \in transactions
    /\ last' = [NoCall EXCEPT !.op = "get_total_cost",
                   !.portfolio_id = t.portfolio_id, !.crypto_id = t.crypto_id,
                   !.transaction_id = t.transaction_id, !.type = t.type,
                   !.quantity = t.quantity, !.price_per_unit = t.price_per_unit,
                   !.amount = Num(TotalCost(t))]
    /\ UNCHANGED <<holdings, transactions, next_tx_id, next_holding_id,
                   direct_calls, faults, prices, procs, base,
                   fetcher, db>>

\* ---- the log as it is edited: events, then update and get_total_cost on
\* the stored transactions ----
NextEdit ==
    \/ \E portfolio_id \in Portfolios, crypto_id \in Cryptos, type \in Types,
          quantity \in EditQuantities, price_per_unit \in EditPrices :
         /\ Room(MaxEditTx)
         /\ Create(portfolio_id, crypto_id, type, quantity, price_per_unit, "none")
    \/ \E t \in transactions, kwargs \in Kwargs, fail \in UpdateFails :
         Update(t, kwargs, fail)
    \/ \E t \in transactions : GetTotalCost(t)

SpecEdit == Init /\ [][NextEdit]_vars

\* ---- PriceFetcher: start() and stop() called one after the other by the
\* application, and the loop threads that start() spawned ----

\* PriceFetcher.start(): a no-op while is_running, otherwise a new thread
\* running _fetch_and_update becomes self.thread
Start ==
    /\ fetcher.caller = "idle"
    /\ IF fetcher.is_running
       THEN /\ fetcher' = fetcher
            /\ last' = [NoCall EXCEPT !.op = "start", !.result = "running"]
       ELSE /\ fetcher.spawned < MaxStarts
            /\ fetcher' = [fetcher EXCEPT !.is_running = TRUE,
                                          !.spawned = @ + 1,
                                          !.thread = fetcher.spawned + 1,
                                          !.loops[fetcher.spawned + 1] = "test"]
            /\ last' = [NoCall EXCEPT !.op = "start", !.result = "started"]
    /\ UNCHANGED <<holdings, transactions, next_tx_id, next_holding_id,
                   direct_calls, faults, prices, procs, base, db>>

\* PriceFetcher.stop() up to its join: a no-op unless is_running, otherwise
\* is_running = False and the caller waits in self.thread.join(timeout=5)
Stop ==
    /\ fetcher.caller = "idle"
    /\ IF fetcher.is_running
       THEN /\ fetcher' = [fetcher EXCEPT !.is_running = FALSE,
                                          !.caller = "join"]
            /\ last' = [NoCall EXCEPT !.op = "stop", !.result = "joining"]
       ELSE /\ fetcher' = fetcher
            /\ last' = [NoCall EXCEPT !.op = "stop", !.result = "idle"]
    /\ UNCHANGED <<holdings, transactions, next_tx_id, next_holding_id,
                   direct_calls, faults, prices, procs, base, db>>

\* where a loop thread stays for as long as the network, a callback or
\* time.sleep takes
Blocking == {"fetch", "callbacks", "sleep", "backoff"}

\* self.thread.join(timeout=5) returns: the thread has ended, or 5 seconds
\* have passed while it was in a blocking call
Joined(pc, timed_out) ==
    IF timed_out THEN pc \in Blocking ELSE pc = "dead"

\* stop() returns from its join
Join ==
    /\ fetcher.caller = "join"
    /\ \E timed_out \in BOOLEAN :
         /\ Joined(fetcher.loops[fetcher.thread], timed_out)
         /\ last' = [NoCall EXCEPT !.op = "stop",
                        !.result = IF timed_out THEN "timeout" ELSE "joined"]
    /\ fetcher' = [fetcher EXCEPT !.caller = "idle"]
    /\ UNCHANGED <<holdings, transactions, next_tx_id, next_holding_id,
                   direct_calls, faults, prices, procs, base, db>>

\* _fetch_and_update: `while self.is_running:`
Test(i) ==
    /\ fetcher.loops[i] = "test"
    /\ fetcher' = [fetcher EXCEPT !.loops[i] =
                      IF fetcher.is_running THEN "fetch" ELSE "dead"]
    /\ UNCHANGED <<holdings, transactions, next_tx_id, next_holding_id,
                   direct_calls, faults, prices, last, procs, base, db>>

\* _fetch_and_update: self.api.update_database_prices(symbols) stored a
\* price (updated_count > 0), stored none, or raised
Fetch(i) ==
    /\ fetcher.loops[i] = "fetch"
    /\ \/ /\ \E crypto_id \in Cryptos, price \in Prices :
               prices' = (prices \ LatestPrice(prices, crypto_id))
                             \cup {[crypto_id |-> crypto_id, price |-> price]}
          /\ fetcher' = [fetcher EXCEPT !.loops[i] = "callbacks"]
       \/ /\ prices' = prices
          /\ \E pc \in {"pause", "backoff"} :
               fetcher' = [fetcher EXCEPT !.loops[i] = pc]
    /\ UNCHANGED <<holdings, transactions, next_tx_id, next_holding_id,
                   direct_calls, faults, last, procs, base, db>>

\* _fetch_and_update: `for callback in self._callbacks: callback(...)`
Notify(i) ==
    /\ fetcher.loops[i] = "callbacks"
    /\ fetcher' = [fetcher EXCEPT !.loops[i] = "pause"]
    /\ last' = [NoCall EXCEPT !.op = "callback"]
    /\ UNCHANGED <<holdings, transactions, next_tx_id, next_holding_id,
                   direct_calls, faults, prices, procs, base, db>>

\* _fetch_and_update: `if self.is_running and sleep_time > 0: time.sleep(..)`
Pause(i) ==
    /\ fetcher.loops[i] = "pause"
    /\ \E sleep_time \in {0, 1} :
         fetcher' = [fetcher EXCEPT !.loops[i] =
                        IF fetcher.is_running /\ sleep_time > 0 THEN "sleep"
                        ELSE "test"]
    /\ UNCHANGED <<holdings, transactions, next_tx_id, next_holding_id,
                   direct_calls, faults, prices, last, procs, base, db>>

\* time.sleep returns (after the loop body, or in its `except`)
Wake(i) ==
    /\ fetcher.loops[i] \in {"sleep", "backoff"}
    /\ fetcher' = [fetcher EXCEPT !.loops[i] = "test"]
    /\ UNCHANGED <<holdings, transactions, next_tx_id, next_holding_id,
                   direct_calls, faults, prices, last, procs, base, db>>

\* one step of the loop thread i
Loop(i) == Test(i) \/ Fetch(i) \/ Notify(i) \/ Pause(i) \/ Wake(i)

NextFetcher ==
    \/ Start
    \/ Stop
    \/ Join
    \/ \E i \in Threads : Test(i)
    \/ \E i \in Threads : Fetch(i)
    \/ \E i \in Threads : Notify(i)
    \/ \E i \in Threads : Pause(i)
    \/ \E i \in Threads : Wake(i)

SpecFetcher == Init /\ [][NextFetcher]_vars

\* every thread is scheduled, its network calls, callbacks and sleeps end,
\* and a join returns after 5 seconds at the latest
SpecFetcherLive ==
    /\ SpecFetcher
    /\ \A i \in Threads : WF_vars(Loop(i))
    /\ WF_vars(Join)

\* ---- Database: the context manager inside execute_query, one step per
\* call into the connector, for callers that share the pool ----

\* the use of p has left execute_query: returned, or raised
Left(use, raised) == [use EXCEPT !.pc = "done", !.raised = raised]

\* __enter__: DatabaseConnection.get_connection() hands out a connection of
\* the pool, or raises (pool exhausted, server unreachable)
Enter(p) ==
    /\ db.users[p].pc \in {"idle", "done"}
    /\ db.queries < MaxQueries
    /\ \E ok \in BOOLEAN :
         db' = IF ok
               THEN [db EXCEPT !.queries = @ + 1, !.out = @ + 1,
                               !.users[p] = [NoUse EXCEPT !.pc = "cursor",
                                                          !.connection = "open"]]
               ELSE [db EXCEPT !.queries = @ + 1,
                               !.users[p] = Left(NoUse, TRUE)]
    /\ UNCHANGED <<holdings, transactions, next_tx_id, next_holding_id,
                   direct_calls, faults, prices, last, procs, base, fetcher>>

\* the server or the network drops a connection that is checked out
Lose(p) ==
    /\ db.users[p].connection = "open"
    /\ db.users[p].pc # "done"
    /\ faults < MaxFaults
    /\ faults' = faults + 1
    /\ db' = [db EXCEPT !.users[p].connection = "lost"]
    /\ UNCHANGED <<holdings, transactions, next_tx_id, next_holding_id,
                   direct_calls, prices, last, procs, base, fetcher>>

\* __enter__: self.connection.cursor(dictionary=True); when it raises,
\* __enter__ raises and __exit__ is never called
Cursor(p) ==
    /\ db.users[p].pc = "cursor"
    /\ db' = IF db.users[p].connection = "lost"
             THEN [db EXCEPT !.users[p] = Left(@, TRUE)]
             ELSE [db EXCEPT !.users[p].pc = "body",
                             !.users[p].cursor = "open"]
    /\ UNCHANGED <<holdings, transactions, next_tx_id, next_holding_id,
                   direct_calls, faults, prices, last, procs, base, fetcher>>

\* the body of the `with`: cursor.execute(query, params) and the fetch;
\* it raises on a lost connection, and may raise on the statement itself
Body(p) ==
    /\ db.users[p].pc = "body"
    /\ \E rejected \in BOOLEAN :
         db' = [db EXCEPT !.users[p].pc = "exit",
                          !.users[p].exc =
                              rejected \/ db.users[p].connection = "lost"]
    /\ UNCHANGED <<holdings, transactions, next_tx_id, next_holding_id,
                   direct_calls, faults, prices, last, procs, base, fetcher>>

\* __exit__ up to the end of its if/else: rollback() when the body raised,
\* commit() otherwise; either raises on a lost connection and __exit__ is
\* left at once
ExitOutcome(use) ==
    IF use.connection = "lost" THEN Left(use, TRUE)
    ELSE [use EXCEPT !.pc = "close",
                     !.ended = IF use.exc THEN "rollback" ELSE "commit"]

\* __exit__: `if exc_type: ... rollback() else: ... commit()`
Exit(p) ==
    /\ db.users[p].pc = "exit"
    /\ db' = [db EXCEPT !.users[p] = ExitOutcome(@)]
    /\ UNCHANGED <<holdings, transactions, next_tx_id, next_holding_id,
                   direct_calls, faults, prices, last, procs, base, fetcher>>

\* __exit__: self.cursor.close(), then close_connection: `if connection and
\* connection.is_connected(): connection.close()` hands it back to the pool;
\* the exception of the body, if any, leaves execute_query
Close(p) ==
    /\ db.users[p].pc = "close"
    /\ db' = IF db.users[p].connection = "open"
             THEN [db EXCEPT !.out = @ - 1,
                             !.users[p] = [Left(@, @.exc) EXCEPT
                                              !.cursor = "closed",
                                              !.connection = "returned"]]
             ELSE [db EXCEPT !.users[p] = [Left(@, @.exc) EXCEPT
                                              !.cursor = "closed"]]
    /\ UNCHANGED <<holdings, transactions, next_tx_id, next_holding_id,
                   direct_calls, faults, prices, last, procs, base, fetcher>>

NextPool ==
    \/ \E p \in Procs : Enter(p)
    \/ \E p \in Procs : Lose(p)
    \/ \E p \in Procs : Cursor(p)
    \/ \E p \in Procs : Body(p)
    \/ \E p \in Procs : Exit(p)
    \/ \E p \in Procs : Close(p)

SpecPool == Init /\ [][NextPool]_vars

\* ======================= properties =======================

\* the holding rows of the pair the last call was about
Now == Matching(last.portfolio_id, last.crypto_id)

\* the position the last call started from (all zero when there was no row)
Before == last.before

\* the last call ran the sell branch of update_holding, or create's check
SellLike == \/ last.op = "create" /\ last.type = "sell"
            \/ last.op = "delete" /\ last.type = "buy"

\* the last call ran the buy branch of update_holding
BuyLike == \/ last.op = "create" /\ last.type = "buy"
           \/ last.op = "delete" /\ last.type = "sell"

\* the last sell-like call asked for more than the position held
Exceeds == SellLike /\ RLt(Before.quantity, Num(last.quantity))

\* C1: in every reachable state every position satisfies
\* total_invested = quantity * average_buy_price.
InvestedIsQuantityTimesAverage ==
    \A h \in holdings :
        h.total_invested = RMul(h.quantity, h.average_buy_price)

\* C1 witness: a sell was applied to a position whose average is a blend
\* of two different buy prices.
BlendedPositionSold ==
    /\ SellLike /\ last.updated
    /\ Before.average_buy_price.d > 1
    /\ \E h \in Now : RPos(h.quantity)

\* C2: no holding ever has a negative quantity, and a sell or a reversal of
\* a buy that exceeds the held quantity writes no field of the position.
QuantityNeverNegative ==
    /\ \A h \in holdings : ~RNeg(h.quantity)
    /\ Exceeds /\ Before # None => Before \in holdings

\* C2 witness: the reversal of a buy exceeded what was left of the position.
ReversalExceeded ==
    /\ last.op = "delete" /\ last.type = "buy" /\ last.fail = "none"
    /\ Before # None /\ Exceeds

\* C3: creating a transaction and then deleting it restores the quantity and
\* the total_invested the position had before.
RoundTripRestores ==
    last.op = "delete" /\ last.undoes /\ last.result = "true" /\ last.updated
    => \A h \in Now : /\ h.quantity = last.undone.quantity
                      /\ h.total_invested = last.undone.total_invested

\* C4: a sell of more than the position holds, or for a pair without a
\* position, returns None / False, leaves the position's three fields as they
\* were and creates no position record.
OversellLeavesPosition ==
    /\ last.op = "create" /\ last.type = "sell"
       /\ (Before = None \/ Exceeds)
       => /\ last.result = "none"
          /\ Lookup(last.portfolio_id, last.crypto_id) = {Before}
    /\ last.op = "delete" /\ Before # None /\ Exceeds
       => /\ ~last.updated
          /\ Lookup(last.portfolio_id, last.crypto_id) = {Before}

\* C4 witness: a sell of more than a non-empty position holds was asked for.
OversellAsked ==
    /\ last.op = "create" /\ last.type = "sell" /\ last.fail = "none"
    /\ Before # None /\ RPos(Before.quantity) /\ Exceeds

\* C5: a create step whose sell is rejected for insufficient balance leaves
\* the Transaction table as it was: no row of the event is ever committed.
RejectBeforeCommit ==
    [][ (/\ last'.op = "create" /\ last'.type = "sell"
         /\ (last'.before = None
             \/ RLt(last'.before.quantity, Num(last'.quantity))))
        => /\ transactions' = transactions
           /\ next_tx_id' = next_tx_id ]_vars

\* C5 witness: a sell was rejected while the log already held a row.
RejectedWithLog ==
    /\ last.op = "create" /\ last.rejected /\ transactions # {}

\* the Transaction row of the last create is in the table
Persisted ==
    \E t \in transactions : /\ t.transaction_id = last.transaction_id
                            /\ last.inserted

\* C6: after every Transaction.create either the row is persisted and the
\* holding was updated by the event, or neither; None means no row.
CreateIsAtomic ==
    last.op = "create"
    => /\ Persisted <=> last.updated
       /\ last.result = "none" => ~Persisted

\* C7: an event with non-positive quantity or price is rejected by
\* Transaction.create and update_holding: nothing is written.
InvalidInputRejected ==
    /\ last.op \in {"create", "update_holding"}
    /\ (last.quantity <= 0 \/ last.price_per_unit <= 0)
    => /\ ~last.inserted /\ ~last.updated
       /\ Lookup(last.portfolio_id, last.crypto_id) = {Before}

\* C8: an applied buy of q at p on (Q, I) gives quantity Q + q,
\* total_invested I + q * p and average_buy_price total_invested / quantity.
BuyBlendsByCapital ==
    BuyLike /\ last.updated
    => \A h \in Now :
         /\ h.quantity = RAdd(Before.quantity, Num(last.quantity))
         /\ h.total_invested =
                RAdd(Before.total_invested,
                     Num(last.quantity * last.price_per_unit))
         /\ RMul(h.average_buy_price, h.quantity) = h.total_invested

\* C8 witness: a buy at a price other than the position's average.
BuyAtAnotherPrice ==
    /\ last.op = "create" /\ last.type = "buy" /\ last.updated
    /\ RPos(Before.quantity)
    /\ Before.average_buy_price # Num(last.price_per_unit)

\* C9: an applied sell of q on (Q, I), Q > 0, keeps average_buy_price, sets
\* quantity to Q - q and total_invested to I * (1 - q / Q).
SellKeepsAverage ==
    SellLike /\ last.updated
    => \A h \in Now :
         /\ h.average_buy_price = Before.average_buy_price
         /\ h.quantity = RSub(Before.quantity, Num(last.quantity))
         /\ RMul(h.total_invested, Before.quantity)
                = RMul(Before.total_invested, h.quantity)

\* C9 witness: part of a position was sold at a price other than its average.
PartSold ==
    /\ last.op = "create" /\ last.type = "sell" /\ last.updated
    /\ RLt(Num(last.quantity), Before.quantity)
    /\ Before.average_buy_price # Num(last.price_per_unit)

\* C10: a sell of exactly the held quantity is accepted and leaves
\* quantity 0 and total_invested 0.
SellAllGivesZero ==
    /\ last.op = "create" /\ last.type = "sell" /\ last.fail = "none"
       /\ Before # None /\ Before.quantity = Num(last.quantity)
       => last.result = "tx" /\ last.updated
    /\ SellLike /\ last.updated /\ Before.quantity = Num(last.quantity)
       => \A h \in Now : h.quantity = Zero /\ h.total_invested = Zero

\* C10 witness: the whole of a position with capital in it was sold.
WholePositionSold ==
    /\ last.op = "create" /\ last.type = "sell" /\ last.result = "tx"
    /\ Before.quantity = Num(last.quantity) /\ RPos(Before.total_invested)

\* the event that undoes an event of this type
InverseType(transaction_type) ==
    IF transaction_type = "buy" THEN "sell" ELSE "buy"

\* C11: deleting a buy of q at p leaves the PortfolioHolding table exactly as
\* Transaction.create of a sell of q at p would have left it from the same
\* state, and deleting a sell exactly as a buy of q at p would have.
ReversalIsInverseEvent ==
    [][ last'.op = "delete"
        => holdings' = CreateOutcome(last'.portfolio_id, last'.crypto_id,
                                     InverseType(last'.type), last'.quantity,
                                     last'.price_per_unit, "none",
                                     last'.before).hs ]_vars

\* C11 witness: a sell was deleted and its amount bought back into a
\* position that still held something.
SellBoughtBack ==
    /\ last.op = "delete" /\ last.type = "sell" /\ last.updated
    /\ RPos(Before.quantity)

\* the rows of two tables that carry the same identity
SameRecord(g, h) ==
    /\ g.holding_id = h.holding_id
    /\ g.portfolio_id = h.portfolio_id
    /\ g.crypto_id = h.crypto_id

\* C19: a position record appears only in an accepted Transaction.create for
\* a pair that had none, starting from all-zero fields to which the event is
\* applied; a rejected create adds none; and no buy, sell or deletion of a
\* transaction removes a record, whatever its quantity.
RecordLazyAndKept ==
    [][ /\ \A h \in holdings : \E g \in holdings' : SameRecord(g, h)
        /\ \A g \in holdings' :
             (\A h \in holdings : ~SameRecord(g, h))
             => /\ last'.op = "create" /\ last'.inserted
                /\ last'.before = None
                /\ Matching(last'.portfolio_id, last'.crypto_id) = {}
                /\ g.portfolio_id = last'.portfolio_id
                /\ g.crypto_id = last'.crypto_id
                /\ g.quantity = Num(last'.quantity)
                /\ g.total_invested = Num(last'.quantity * last'.price_per_unit)
                /\ g.average_buy_price = Num(last'.price_per_unit)
        /\ last'.op = "create" /\ ~last'.inserted => holdings' = holdings ]_vars

\* C19 witness: the deletion of a buy emptied a position, and its record is
\* still in the table.
EmptiedRecordKept ==
    /\ last.op = "delete" /\ last.type = "buy" /\ last.updated
    /\ \E h \in Now : h.quantity = Zero /\ SameRecord(h, Before)

\* the price the last valuation found for a crypto: 0 when it found none
Quote(crypto_id) ==
    IF LatestPrice(last.quotes, crypto_id) = {} THEN Zero
    ELSE Num((CHOOSE r \in LatestPrice(last.quotes, crypto_id) : TRUE).price)

\* the last valuation of one position found a price for it
Priced == /\ last.op \in {"get_profit_loss", "create_asset_row"}
          /\ LatestPrice(last.quotes, last.crypto_id) # {}

\* C12: with a price known, the valuation of a position gives current value
\* quantity * price, amount current value - total_invested, and percentage
\* amount / total_invested * 100, or 0 when total_invested is 0 (the amount
\* is then the current value).
ValuationByFormula ==
    Priced
    => /\ last.current_value = RMul(Before.quantity, Quote(last.crypto_id))
       /\ last.amount = RSub(last.current_value, Before.total_invested)
       /\ Before.total_invested = Zero => last.percentage = Zero
       /\ Before.total_invested # Zero
          => RMul(last.percentage, Before.total_invested)
                 = RMul(last.amount, Num(100))

\* C13: when no price is known for a position's crypto, its current value
\* is 0 and its profit/loss amount is minus its total_invested; a portfolio
\* without any price has value 0 while its positions still count as invested.
NoPriceMeansZero ==
    /\ last.op \in {"get_profit_loss", "create_asset_row"} /\ ~Priced
       => /\ last.current_value = Zero
          /\ RAdd(last.amount, Before.total_invested) = Zero
    /\ last.op = "summary" /\ last.quotes = {}
       => /\ last.total_value = Zero
          /\ RAdd(last.amount, last.total_invested) = Zero
          /\ \A h \in last.rows : RPos(h.quantity) => h \in last.listed

\* C13 witness: a position with capital in it was valued by get_profit_loss
\* while the Price table had no row for its crypto.
ValuedWithoutPrice ==
    /\ last.op = "get_profit_loss" /\ ~Priced
    /\ RPos(Before.quantity) /\ RPos(Before.total_invested)

\* the sum of f over the rows S
RECURSIVE Total(_, _)
Total(S, f) ==
    IF S = {} THEN Zero
    ELSE LET x == CHOOSE y \in S : TRUE
         IN RAdd(f[x], Total(S \ {x}, f))

\* the rows of the last summary's portfolio that hold something
Held == {h \in last.rows : /\ h.portfolio_id = last.portfolio_id
                           /\ ~RNeg(h.quantity) /\ h.quantity # Zero}

\* C14: a portfolio summary adds up exactly the positions with quantity > 0:
\* total value is the sum of quantity * latest price, total invested the sum
\* of total_invested; the positions with quantity 0 are not listed and add
\* nothing, and the summary leaves their records in the table.
AggregatesOverHeld ==
    last.op = "summary"
    => /\ last.total_value
              = Total(Held, [h \in Held |-> RMul(h.quantity, Quote(h.crypto_id))])
       /\ last.total_invested = Total(Held, [h \in Held |-> h.total_invested])
       /\ last.listed = Held
       /\ holdings = last.rows

\* C14 witness: a summary of a portfolio with a priced position that holds
\* something and the record of a position with quantity 0.
HeldAndEmptySummed ==
    /\ last.op = "summary" /\ RPos(last.total_value)
    /\ \E h \in last.rows : h.quantity = Zero /\ h \in holdings

\* C15: the portfolio's profit/loss comes from the summed totals: amount =
\* total value - total invested, percentage = amount / total invested * 100.
FromSummedTotals ==
    last.op = "summary"
    => /\ last.amount = RSub(last.total_value, last.total_invested)
       /\ last.total_invested # Zero
          => RMul(last.percentage, last.total_invested)
                 = RMul(last.amount, Num(100))

\* C16: a portfolio with no position, or only positions with quantity 0, is
\* summarised as total value 0, total invested 0, amount 0, percentage 0.
EmptyPortfolioIsZero ==
    last.op = "summary" /\ Held = {}
    => /\ last.total_value = Zero /\ last.total_invested = Zero
       /\ last.amount = Zero /\ last.percentage = Zero

\* C16 witness: a summary of a portfolio whose only records have quantity 0,
\* with prices known.
OnlyEmptySummed ==
    /\ last.op = "summary" /\ last.rows # {} /\ Held = {}
    /\ last.quotes # {}

\* the three figures of a position
Figures(h) == <<h.quantity, h.average_buy_price, h.total_invested>>

\* the last call was update_holding with these arguments
Updated(quantity, price_per_unit, type) ==
    /\ last.op = "update_holding" /\ last.type = type
    /\ last.quantity = quantity /\ last.price_per_unit = price_per_unit

\* C17: from a zero position, buy 0.5 @ 50000 gives (0.5, 50000, 25000);
\* then buy 0.3 @ 55000 gives (0.8, 51875, 41500); then sell 0.2 @ 60000
\* gives (0.6, 51875, 31125); valued at 60000 that position has current
\* value 36000, profit 4875 and a percentage within 0.01 of 15.66.
ScenarioFigures ==
    /\ Updated(Rat(1, 2), 50000, "buy") /\ Figures(Before) = <<Zero, Zero, Zero>>
       => \A h \in Now : Figures(h) = <<Rat(1, 2), Num(50000), Num(25000)>>
    /\ Updated(Rat(3, 10), 55000, "buy")
       /\ Figures(Before) = <<Rat(1, 2), Num(50000), Num(25000)>>
       => \A h \in Now : Figures(h) = <<Rat(4, 5), Num(51875), Num(41500)>>
    /\ Updated(Rat(1, 5), 60000, "sell")
       /\ Figures(Before) = <<Rat(4, 5), Num(51875), Num(41500)>>
       => \A h \in Now : Figures(h) = <<Rat(3, 5), Num(51875), Num(31125)>>
    /\ last.op = "get_profit_loss" /\ Quote(last.crypto_id) = Num(60000)
       /\ Figures(Before) = <<Rat(3, 5), Num(51875), Num(31125)>>
       => /\ last.current_value = Num(36000)
          /\ last.amount = Num(4875)
          /\ RLt(Rat(1565, 100), last.percentage)
          /\ RLt(last.percentage, Rat(1567, 100))

\* C17 witness: the position the three events leave was valued at 60000.
ScenarioValued ==
    /\ last.op = "get_profit_loss" /\ Quote(last.crypto_id) = Num(60000)
    /\ Figures(Before) = <<Rat(3, 5), Num(51875), Num(31125)>>

\* a PortfolioHolding table without its AUTO_INCREMENT ids
View(hs) == {[h EXCEPT !.holding_id = 0] : h \in hs}

\* the table (as a view) after the call c has run alone on the view
SerialStep(view, c) ==
    LET m == {h \in view : /\ h.portfolio_id = c.portfolio_id
                           /\ h.crypto_id = c.crypto_id}
        zero == NewHolding(0, c.portfolio_id, c.crypto_id)
    IN  IF c.op = "get_or_create"
        THEN IF m = {} THEN view \cup {zero} ELSE view
        ELSE IF c.type = "sell"
        THEN IF \E h \in m : ~RLt(h.quantity, Num(c.quantity))
             THEN (view \ m) \cup {SellResult(h, Num(c.quantity)) : h \in m}
             ELSE view
        ELSE IF m = {}
        THEN view \cup {BuyResult(zero, Num(c.quantity), Num(c.price_per_unit))}
        ELSE (view \ m)
                 \cup {BuyResult(h, Num(c.quantity), Num(c.price_per_unit)) :
                           h \in m}

\* the callers whose call of the running round has returned
Done == {p \in Procs : procs[p].pc = "done"}

\* the tables the calls of the round leave when run one after the other
SerialViews ==
    IF Done = {} THEN {View(base)}
    ELSE IF \E p \in Procs : Done = {p}
    THEN {SerialStep(View(base), procs[p]) : p \in Done}
    ELSE {SerialStep(SerialStep(View(base), procs[o[1]]), procs[o[2]]) :
              o \in {x \in Done \X Done : x[1] # x[2]}}

\* C18: when the calls of a round have returned, the holdings are what the
\* same calls leave when run one after the other in some order from the
\* table the round began with.
SerializedOutcome ==
    (\A p \in Procs : ~Running(p)) => View(holdings) \in SerialViews

Logged(portfolio_id, crypto_id) ==
    {t \in transactions : /\ t.portfolio_id = portfolio_id
                          /\ t.crypto_id = crypto_id}

\* what a log row adds to the quantity of its pair
Signed(t) == IF t.type = "buy" THEN Num(t.quantity) ELSE Num(0 - t.quantity)

\* C21: after any sequence of successful create and delete calls the
\* quantity of every holding is the sum of the stored buys minus the sum of
\* the stored sells of its pair.
QuantityMatchesLog ==
    \A h \in holdings :
        h.quantity = Total(Logged(h.portfolio_id, h.crypto_id),
                           [t \in Logged(h.portfolio_id, h.crypto_id) |-> Signed(t)])

\* C22: Transaction.delete removes the row and returns True only if the
\* reversal was applied to the holding; a rejected reversal keeps the row and
\* delete does not report success.
DeleteOnlyIfReversed ==
    last.op = "delete" /\ ~last.updated
    => ~last.removed /\ last.result # "true"

\* C23: an applied event followed by its reversal leaves the quantity the
\* position had before the event, for a buy and for an accepted sell.
RoundTripRestoresQuantity ==
    last.op = "delete" /\ last.undoes /\ last.result = "true"
    => \A h \in Now : h.quantity = last.undone.quantity

\* C23 witness: part of a position was sold and that sell was reversed.
PartSoldAndUndone ==
    /\ last.op = "delete" /\ last.type = "sell" /\ last.undoes
    /\ last.result = "true" /\ RPos(Before.quantity)
    /\ RLt(Before.quantity, last.undone.quantity)

\* C24: the table an accepted sell (a create of a sell, the reversal of a
\* buy) leaves is the one the same sell at any other price would leave.
SellIgnoresPrice ==
    [][ /\ last'.op = "create" /\ last'.type = "sell"
           => \A p \in Prices :
                holdings' = CreateOutcome(last'.portfolio_id, last'.crypto_id,
                                          "sell", last'.quantity, p, "none",
                                          last'.before).hs
        /\ last'.op = "delete" /\ last'.type = "buy"
           => \A p \in Prices, t \in transactions :
                t.transaction_id = last'.transaction_id
                => holdings' = DeleteOutcome([t EXCEPT !.price_per_unit = p],
                                             "none", last'.before).hs ]_vars

\* C24 witness: part of a position was sold above its average price.
SoldAboveAverage ==
    /\ last.op = "create" /\ last.type = "sell" /\ last.updated
    /\ RLt(Before.average_buy_price, Num(last.price_per_unit))
    /\ \E h \in Now : RPos(h.quantity)

SameEvent(t, u) ==
    /\ u.transaction_id = t.transaction_id /\ u.type = t.type
    /\ u.quantity = t.quantity /\ u.price_per_unit = t.price_per_unit
    /\ u.portfolio_id = t.portfolio_id /\ u.crypto_id = t.crypto_id

\* C26: Transaction.update, whatever keywords it is given, leaves type,
\* quantity, price_per_unit, portfolio and crypto of every transaction and
\* all holdings as they were, changes notes, exchange or fee only when that
\* keyword was given, and without any of the three writes nothing and
\* returns False.
UpdateTouchesOnlyAllowed ==
    [][ last'.op = "update"
        => /\ holdings' = holdings
           /\ Cardinality(transactions') = Cardinality(transactions)
           /\ \A t \in transactions : \E u \in transactions' :
                /\ SameEvent(t, u)
                /\ u.notes # t.notes => "notes" \in last'.given
                /\ u.exchange # t.exchange => "exchange" \in last'.given
                /\ u.fee # t.fee => "fee" \in last'.given
           /\ last'.given \cap AllowedFields = {}
              => transactions' = transactions /\ last'.result = "false" ]_vars

\* C26 witness: an update given quantity next to fee succeeded and stored
\* the fee.
EditedWithForbiddenKey ==
    /\ last.op = "update" /\ last.result = "true"
    /\ {"quantity", "fee"} \subseteq last.given
    /\ \E t \in transactions :
         t.transaction_id = last.transaction_id /\ t.fee # 0

\* C27: get_total_cost returns quantity * price_per_unit + fee, positive,
\* for a buy, and a negative amount for a sell.
TotalCostSigned ==
    last.op = "get_total_cost"
    => \A t \in transactions :
         t.transaction_id = last.transaction_id
         => /\ t.type = "buy"
               => /\ last.amount = Num(t.quantity * t.price_per_unit + t.fee)
                  /\ RPos(last.amount)
            /\ t.type = "sell" => RNeg(last.amount)

\* the threads that are inside _fetch_and_update
Alive == {i \in Threads : fetcher.loops[i] \notin {"unborn", "dead"}}

\* C28: after any sequence of start() and stop() calls at most one thread
\* runs the fetch loop: a start() after a stop() that has returned never
\* runs next to a loop of an earlier start().
AtMostOneLoop == Cardinality(Alive) <= 1

\* stop() has returned and start() has not been called since
Stopped == ~fetcher.is_running /\ fetcher.caller = "idle"

\* the thread i invokes the registered callbacks in this step
Invokes(i) ==
    fetcher.loops[i] = "callbacks" /\ fetcher'.loops[i] # "callbacks"

\* when stop() has returned for good, every loop thread ends
StoppedLoopsEnd == <>[]Stopped => <>[](Alive = {})

\* C29: once stop() has returned and no start() follows, no callback is
\* invoked any more and every loop thread eventually ends.
StopSilencesLoop ==
    /\ [][Stopped => \A i \in Threads : ~Invokes(i)]_vars
    /\ StoppedLoopsEnd

\* C30: every use of the Database context manager ends in exactly one of
\* commit (the body did not raise) or rollback (it raised), with its cursor
\* closed and its connection back in the pool; when nobody is inside
\* execute_query no connection is checked out.
UseEndsClean ==
    /\ \A p \in Procs :
         db.users[p].pc = "done" /\ db.users[p].connection # "none"
         => /\ db.users[p].ended = IF db.users[p].exc THEN "rollback"
                                   ELSE "commit"
            /\ db.users[p].cursor = "closed"
            /\ db.users[p].connection = "returned"
    /\ (\A p \in Procs : db.users[p].pc \in {"idle", "done"}) => db.out = 0

====
